---------------------------- MODULE Spec2Model ----------------------------
(***************************************************************************)
(* nanoTTS streaming pipeline: Segmenter -> segment channel -> TTS worker  *)
(* -> result channel -> reorder consumer -> caller.                        *)
(*                                                                         *)
(* Text is a sequence of characters; a character is a one-letter string    *)
(* (non-ASCII characters carry their code point name, e.g. "U3002").       *)
(* Every action is one task running from one await point to the next, as   *)
(* the tasks are scheduled cooperatively on one thread.                    *)
(***************************************************************************)
EXTENDS Integers, Sequences, FiniteSets, TLC

(***************************************************************************)
(* Characters and text helpers                                             *)
(***************************************************************************)

\* Python's \s and str.strip() whitespace, restricted to the model alphabet.
IsSpace(c) == c \in {" ", "\n", "\t"}

IsNewline(c) == c = "\n"

\* [A-Z] of TIER1_SEPARATORS.
IsUpper(c) == c \in {"A", "B", "C", "D", "E", "F", "M", "P", "S", "U"}

IsLower(c) == c \in {"a", "b", "c", "d", "e", "f", "h", "r", "s"}

IsLetter(c) == IsUpper(c) \/ IsLower(c)

IsDigit(c) == c \in {"0", "1", "2", "3", "4", "5", "6", "7", "8", "9"}

\* [!?] and the CJK terminators U+3002, U+FF01, U+FF1F, U+2026.
IsTerminator(c) == c \in {"!", "?", "U3002", "UFF01", "UFF1F", "U2026"}

\* not text.strip()
Blank(s) == \A i \in 1..Len(s) : IsSpace(s[i])

\* s[:n] and s[n:] of Python, n counted in characters.
Take(s, n) == SubSeq(s, 1, n)

Drop(s, n) == SubSeq(s, n + 1, Len(s))

Min(a, b) == IF a <= b THEN a ELSE b

Max(a, b) == IF a >= b THEN a ELSE b

\* The least element of a non-empty set of integers, 0 for the empty set.
Least(S) == IF S = {} THEN 0 ELSE CHOOSE x \in S : \A y \in S : x <= y

Greatest(S) == IF S = {} THEN 0 ELSE CHOOSE x \in S : \A y \in S : x >= y


\* A character that is no letter, digit or whitespace.
IsPunct(c) == ~IsSpace(c) /\ ~IsLetter(c) /\ ~IsDigit(c)

NotStar(c) == c # "*"

\* The backtick is written "TICK".
NotTick(c) == c # "TICK"

NotRBracket(c) == c # "]"

NotRParen(c) == c # ")"

NotNewline(c) == c # "\n"

IsHash(c) == c = "#"

\* Membership of a character in a character class of the patterns, the
\* class being named after its test.
InClass(c, cls) ==
    CASE cls = "IsSpace"     -> IsSpace(c)
      [] cls = "IsLetter"    -> IsLetter(c)
      [] cls = "IsDigit"     -> IsDigit(c)
      [] cls = "IsPunct"     -> IsPunct(c)
      [] cls = "IsNewline"   -> IsNewline(c)
      [] cls = "NotStar"     -> NotStar(c)
      [] cls = "NotTick"     -> NotTick(c)
      [] cls = "NotRBracket" -> NotRBracket(c)
      [] cls = "NotRParen"   -> NotRParen(c)
      [] cls = "NotNewline"  -> NotNewline(c)
      [] OTHER               -> IsHash(c)

\* End of the maximal run of characters of the class cls that starts at i
\* (i - 1 when s[i] is not of the class).
RunEnd(s, i, cls) ==
    Greatest({i - 1} \cup {j \in i..Len(s) : \A k \in i..j : InClass(s[k], cls)})

(***************************************************************************)
(* The tokenizer (tiktoken cl100k_base), at the granularity of its         *)
(* pre-tokenization pattern: a word with its leading space, a group of up  *)
(* to three digits, a run of punctuation with the newlines after it, a run *)
(* of whitespace.  Each such piece counts as one token.                    *)
(***************************************************************************)

\* Index of the last character of the piece that starts at i.
PieceEnd(s, i) ==
    LET n    == Len(s)
        c    == s[i]
        nxt  == IF i < n THEN s[i + 1] ELSE ""
        wsE  == RunEnd(s, i, "IsSpace")
        nls  == {j \in i..wsE : IsNewline(s[j])}
    IN  IF IsLetter(c) THEN RunEnd(s, i, "IsLetter")
        ELSE IF ~IsDigit(c) /\ ~IsNewline(c) /\ i < n /\ IsLetter(nxt)
             THEN RunEnd(s, i + 1, "IsLetter")
        ELSE IF IsDigit(c) THEN Min(RunEnd(s, i, "IsDigit"), i + 2)
        ELSE IF IsPunct(c)
             THEN RunEnd(s, RunEnd(s, i, "IsPunct") + 1, "IsNewline")
        ELSE IF c = " " /\ i < n /\ IsPunct(nxt)
             THEN RunEnd(s, RunEnd(s, i + 1, "IsPunct") + 1, "IsNewline")
        ELSE IF nls # {} THEN Greatest(nls)
        ELSE IF wsE = n THEN n
        ELSE IF wsE > i THEN wsE - 1
        ELSE i

RECURSIVE TokenEndsFrom(_, _)
\* The end positions of the tokens of s from position i on, in order.
TokenEndsFrom(s, i) ==
    IF i > Len(s) THEN <<>>
    ELSE CHOOSE r \in {<<e>> \o TokenEndsFrom(s, e + 1) : e \in {PieceEnd(s, i)}} : TRUE

\* encoder.encode(s), each token given by the position where it ends.
Encode(s) == TokenEndsFrom(s, 1)

\* len(encoder.encode(s))
TokenCount(s) == Len(Encode(s))

\* The text of the first k of the tokens that end at the positions ends.
PrefixAt(s, ends, k) == IF k <= 0 THEN <<>> ELSE Take(s, ends[Min(k, Len(ends))])

SuffixAt(s, ends, k) == IF k <= 0 THEN s ELSE Drop(s, ends[Min(k, Len(ends))])

\* encoder.decode(tokens[:k]) for tokens = encoder.encode(s)
DecodePrefix(s, k) == PrefixAt(s, Encode(s), k)

\* encoder.decode(tokens[k:]) for tokens = encoder.encode(s)
DecodeSuffix(s, k) == SuffixAt(s, Encode(s), k)

(***************************************************************************)
(* utils.py: normalisation of an input fragment                            *)
(***************************************************************************)

RECURSIVE KeepAt(_, _, _)
\* The characters of s at the positions i.. for which Keep[j] holds.
KeepAt(s, Keep, i) ==
    IF i > Len(s) THEN <<>>
    ELSE (IF Keep[i] THEN <<s[i]>> ELSE <<>>) \o KeepAt(s, Keep, i + 1)

\* re.sub(r"  +", " ", s): a space that follows a space is dropped.
CollapseSpaces(s) ==
    KeepAt(s, [i \in 1..Len(s) |-> ~(s[i] = " " /\ i > 1 /\ s[i - 1] = " ")], 1)

\* Start of the maximal whitespace run that holds position i.
WsStart(s, i) == Least({j \in 1..i : \A k \in j..i : IsSpace(s[k])})

\* re.sub(r"\n\s*\n\s*\n+", "\n\n", s): in a whitespace run with three or
\* more newlines, everything from its first to its last newline becomes
\* two newlines.
CollapseNewlines(s) ==
    LET Nls(i) == {j \in WsStart(s, i)..RunEnd(s, i, "IsSpace") : IsNewline(s[j])}
        Keep == [i \in 1..Len(s) |->
                   IF IsSpace(s[i]) /\ Cardinality(Nls(i)) >= 3
                      /\ Least(Nls(i)) <= i /\ i <= Greatest(Nls(i))
                   THEN i = Least(Nls(i)) \/ i = Greatest(Nls(i))
                   ELSE TRUE]
    IN  KeepAt(s, Keep, 1)

\* normalize_text (NFC normalisation changes no character of the alphabet).
normalize_text(s) ==
    IF s = <<>> THEN s
    ELSE CHOOSE r \in {CollapseNewlines(t) : t \in {CollapseSpaces(s)}} : TRUE

\* preprocess_text
preprocess_text(s) == IF s = <<>> THEN s ELSE normalize_text(s)

(***************************************************************************)
(* utils.py: MARKDOWN_PATTERNS and clean_markdown.  A pattern is given by  *)
(* the end of its match that starts at position i (0 when there is none)   *)
(* and by the part of the match that the replacement keeps.                *)
(***************************************************************************)

At(s, i) == IF i >= 1 /\ i <= Len(s) THEN s[i] ELSE ""

LineStart(s, i) == i = 1 \/ s[i - 1] = "\n"

\* Where the group (.+) of  #{1,6}\s*(.+)  or  >\s*(.+)  starts, when the
\* marker ends at position q - 1 and may give back one character when spare holds.
RestStart(s, q, spare) ==
    LET we    == RunEnd(s, q, "IsSpace")
        cands == {r \in q..Len(s) : s[r] # "\n"}
    IN  IF we < Len(s) THEN we + 1
        ELSE IF cands # {} THEN Greatest(cands)
        ELSE IF spare THEN q - 1
        ELSE 0

\* [first, last] of the kept group of pattern k matched at i; <<0, 0, 0>>
\* when pattern k does not match at i.  The third component is the end of
\* the whole match.
MarkdownMatch(k, s, i) ==
    LET none == <<0, 0, 0>>
        c    == s[i]
    IN  CASE k = 1 ->  \* \*\*([^*]+)\*\*
               LET e == RunEnd(s, i + 2, "NotStar")
               IN  IF c = "*" /\ At(s, i + 1) = "*" /\ e >= i + 2
                      /\ At(s, e + 1) = "*" /\ At(s, e + 2) = "*"
                   THEN <<i + 2, e, e + 2>> ELSE none
          [] k = 2 ->  \* \*([^*]+)\*
               LET e == RunEnd(s, i + 1, "NotStar")
               IN  IF c = "*" /\ e >= i + 1 /\ At(s, e + 1) = "*"
                   THEN <<i + 1, e, e + 1>> ELSE none
          [] k = 3 ->  \* TICK([^TICK]+)TICK
               LET e == RunEnd(s, i + 1, "NotTick")
               IN  IF c = "TICK" /\ e >= i + 1 /\ At(s, e + 1) = "TICK"
                   THEN <<i + 1, e, e + 1>> ELSE none
          [] k = 4 ->  \* #{1,6}\s*(.+)
               LET h == Min(RunEnd(s, i, "IsHash") - i + 1, 6)
                   p == RestStart(s, i + h, h >= 2)
                   e == RunEnd(s, p, "NotNewline")
               IN  IF c = "#" /\ p > 0 THEN <<p, e, e>> ELSE none
          [] k = 5 ->  \* \[([^\]]+)\]\([^)]+\)
               LET e == RunEnd(s, i + 1, "NotRBracket")
                   f == RunEnd(s, e + 3, "NotRParen")
               IN  IF c = "[" /\ e >= i + 1 /\ At(s, e + 1) = "]"
                      /\ At(s, e + 2) = "(" /\ f >= e + 3 /\ At(s, f + 1) = ")"
                   THEN <<i + 1, e, f + 1>> ELSE none
          [] k = 6 ->  \* >\s*(.+)
               LET p == RestStart(s, i + 1, FALSE)
                   e == RunEnd(s, p, "NotNewline")
               IN  IF c = ">" /\ p > 0 THEN <<p, e, e>> ELSE none
          [] k = 7 ->  \* ^\s*[-*+]\s+
               LET b == RunEnd(s, i, "IsSpace") + 1
                   e == RunEnd(s, b + 1, "IsSpace")
               IN  IF LineStart(s, i) /\ At(s, b) \in {"-", "*", "+"} /\ e >= b + 1
                   THEN <<1, 0, e>> ELSE none
          [] k = 8 ->  \* ^\s*\d+\.\s+
               LET b == RunEnd(s, i, "IsSpace") + 1
                   d == RunEnd(s, b, "IsDigit")
                   e == RunEnd(s, d + 2, "IsSpace")
               IN  IF LineStart(s, i) /\ d >= b /\ At(s, d + 1) = "." /\ e >= d + 2
                   THEN <<1, 0, e>> ELSE none

RECURSIVE SubFrom(_, _, _)
\* pattern.sub(replacement, s) for pattern k, from position i on.
SubFrom(k, s, i) ==
    IF i > Len(s) THEN <<>>
    ELSE CHOOSE r \in
             {IF m[3] > 0 THEN SubSeq(s, m[1], m[2]) \o SubFrom(k, s, m[3] + 1)
              ELSE <<s[i]>> \o SubFrom(k, s, i + 1) : m \in {MarkdownMatch(k, s, i)}} : TRUE

RECURSIVE ApplyPatterns(_, _)
\* The loop over MARKDOWN_PATTERNS, from pattern k on.
ApplyPatterns(k, s) ==
    IF k > 8 THEN s
    ELSE CHOOSE r \in {ApplyPatterns(k + 1, t) : t \in {SubFrom(k, s, 1)}} : TRUE

clean_markdown(s) ==
    IF s = <<>> THEN s
    ELSE CHOOSE r \in {CollapseSpaces(t) : t \in {ApplyPatterns(1, s)}} : TRUE

(***************************************************************************)
(* segmenter.py: separators and break points                               *)
(***************************************************************************)

\* [!?...](?=\s|$)
TermMatch(s, i) == IsTerminator(s[i]) /\ (i = Len(s) \/ IsSpace(s[i + 1]))

\* \.(?=\s+[A-Z]) | \.(?=\s*$)
DotMatch(s, i) ==
    /\ s[i] = "."
    /\ LET e == RunEnd(s, i + 1, "IsSpace")
       IN  \/ e = Len(s)
           \/ e > i /\ IsUpper(s[e + 1])

\* \n+ : a run of newlines, matched from its first newline.
NewlineMatch(s, i) == IsNewline(s[i]) /\ (i = 1 \/ ~IsNewline(s[i - 1]))

\* The end positions of the matches of TIER1_SEPARATORS in s.
Tier1Ends(s) ==
    {i \in 1..Len(s) : TermMatch(s, i) \/ DotMatch(s, i)}
    \cup {RunEnd(s, i, "IsNewline") : i \in {j \in 1..Len(s) : NewlineMatch(s, j)}}

\* The end positions of the matches of TIER2_SEPARATORS (,\s+) in s.
Tier2Ends(s) ==
    {RunEnd(s, i + 1, "IsSpace") :
        i \in {j \in 1..Len(s) - 1 : s[j] = "," /\ IsSpace(s[j + 1])}}

SeparatorEnds(s, tier) == IF tier = 1 THEN Tier1Ends(s) ELSE Tier2Ends(s)

\* A search that returns the end of the last match with enough tokens.
FindBreakPointLatest(s, tier, minTok) ==
    LET ends == {e \in SeparatorEnds(s, tier) : TokenCount(Take(s, e)) >= minTok}
    IN  IF ends = {} THEN 0 ELSE CHOOSE x \in ends : \A y \in ends : y <= x

\* _find_break_point_with_pattern: the end of the first match whose prefix
\* has at least min_tokens tokens, 0 when there is none.
FindBreakPoint(s, tier, minTok) ==
    Least({e \in SeparatorEnds(s, tier) : TokenCount(Take(s, e)) >= minTok})

\* TIER1_SEPARATORS.search(p) or TIER2_SEPARATORS.search(p)
HasSeparator(p) == Tier1Ends(p) # {} \/ Tier2Ends(p) # {}

\* p.endswith((" ", "\n", "\t"))
EndsWithSpace(p) == p # <<>> /\ IsSpace(p[Len(p)])

\* _find_token_break_point for the tokens of s that end at the positions
\* ends: the two backward searches and the hard cut.
TokenBreakPoint(s, ends, minTok, maxTok) ==
    LET sepAt == {i \in (minTok + 1)..Min(Len(ends), maxTok) :
                     HasSeparator(PrefixAt(s, ends, i))}
        wsAt  == {i \in (minTok + 1)..maxTok :
                     i < Len(ends) /\ EndsWithSpace(PrefixAt(s, ends, i))}
    IN  IF sepAt # {} THEN Greatest(sepAt)
        ELSE IF wsAt # {} THEN Greatest(wsAt)
        ELSE Min(maxTok, Len(ends))

\* _find_token_break_point: the number of tokens to emit on a forced break.
FindTokenBreakPoint(s, minTok, maxTok) ==
    CHOOSE r \in {TokenBreakPoint(s, ends, minTok, maxTok) : ends \in {Encode(s)}} : TRUE

(***************************************************************************)
(* Bounds and inputs                                                       *)
(***************************************************************************)

\* Capacity of the segment channel and of the result channel (the code
\* creates both with max_buffer_size=64; the model scales them down).
SegCap == 1

AudCap == 1

\* Text literals.
Txt5 == <<"A", "!", " ", "B", "!", " ", "C", "!", " ", "D", "!", " ", "E", "!">>

\* The runs that are explored: the input shape (a string "str", a synchronous
\* iterable "sync", an asynchronous generator "agen", another asynchronous
\* iterable "async"), its fragments and the configuration.
Runs ==
    { [kind |-> "str", frags |-> <<Txt5>>, min_tokens |-> 1, max_tokens |-> 15,
       pre_hook |-> "none"],
      [kind |-> "str", frags |-> << <<"a", " ", "b", " ", "c", " ", "d", " ", "e">> >>,
       min_tokens |-> 1, max_tokens |-> 3, pre_hook |-> "none"],
      [kind |-> "sync",
       frags |-> << <<"A", "!", " ">>, <<"B", "!", " ", "C", "!", " ">>, <<"D", "!">> >>,
       min_tokens |-> 1, max_tokens |-> 15, pre_hook |-> "none"],
      [kind |-> "async",
       frags |-> << <<"A", "b">>, <<" ", "c", "d">>, <<"!">> >>,
       min_tokens |-> 10, max_tokens |-> 50, pre_hook |-> "none"],
      [kind |-> "agen",
       frags |-> << <<"A", "b">>, <<" ", "c", "d">>, <<"!">> >>,
       min_tokens |-> 10, max_tokens |-> 50, pre_hook |-> "none"],
      [kind |-> "async",
       frags |-> << <<"A", "!", " ", "B", "!", " ">>, <<"C", "!", " ", "D", "!">> >>,
       min_tokens |-> 1, max_tokens |-> 15, pre_hook |-> "none"],
      [kind |-> "async",
       frags |-> << <<"A", "!", " ", "B", "!", " ">>, <<"C", "!">> >>,
       min_tokens |-> 1, max_tokens |-> 15, pre_hook |-> "identity"],
      [kind |-> "str", frags |-> << <<>> >>,
       min_tokens |-> 1, max_tokens |-> 15, pre_hook |-> "none"],
      [kind |-> "str", frags |-> << <<" ", " ", "\n">> >>,
       min_tokens |-> 1, max_tokens |-> 15, pre_hook |-> "identity"],
      [kind |-> "sync", frags |-> << <<" ">>, <<"\n", "\t">> >>,
       min_tokens |-> 1, max_tokens |-> 15, pre_hook |-> "none"],
      [kind |-> "async", frags |-> << <<" ">>, <<"\n">> >>,
       min_tokens |-> 1, max_tokens |-> 15, pre_hook |-> "none"] }

(***************************************************************************)
(* State                                                                   *)
(***************************************************************************)

VARIABLES
    run,          \* the input and configuration of this stream() call
    token,        \* StreamToken._cancelled
    sg,           \* the Segmenter inside _segment_producer (see SegInit)
    segQ,         \* the segment channel's buffer
    wpc, wseg,    \* _tts_worker: its position and the segment it holds
    audQ,         \* the result channel's buffer
    cpc,          \* _reorder_consumer: "recv", "yield" (suspended at a yield), "done"
    expected_id,  \* _reorder_consumer.expected_id
    pending,      \* _reorder_consumer.pending (id -> text)
    spc,          \* stream(): "run", "join" (leaving the task group), "done"
    published,    \* history: the segments sent onto the segment channel
    failed,       \* history: ids of the segments whose synthesis raised
    out,          \* history: the pairs yielded to the caller, with their ids
    lost,         \* history: text dropped when the idle timeout cancelled a step
    idle,         \* history: idle[k] idle timeouts fired while fragment k was awaited
    arrived,      \* history: the ids the consumer received, in arrival order
    earlier,      \* history: the segments published by an earlier feed of the same text
    life,         \* a NanoTTS object, its StreamTokens and its stream() invocations
    conv,         \* a call of AudioTranscoder.convert and its outcome
    recvOpen      \* the receiving end of the segment channel is not closed

vars == <<run, token, sg, segQ, wpc, wseg, audQ, cpc, expected_id, pending,
          spc, published, failed, out, lost, idle, arrived, earlier, life, conv,
          recvOpen>>

\* Segmenter.__init__ plus the position of feed():
\*   pc    "start", "wait" (awaiting the next fragment), "hook" (awaiting
\*         pre_hook), "send" (awaiting send_stream.send), "done" (closed),
\*         "raised" (feed has ended by an exception)
\*   buf   _buf                    id    _segment_id
\*   pos   fragments consumed      cur   the text being hooked or sent
\*   rest  the local variable remaining of the caller of _emit
\*   kont  the caller of _emit: "tier" (_try_segment_at_tier), "force" and
\*         "plain" (_emit_with_token_boundary), "timeout" (the timeout
\*         branch of _process_async_iter_with_timeout), "flush" (flush)
SegInit == [pc |-> "start", buf |-> <<>>, id |-> 0, pos |-> 0, cur |-> <<>>,
            rest |-> <<>>, kont |-> "flush"]

(***************************************************************************)
(* segmenter.py: the Segmenter.  Each operator below is the body of one    *)
(* method, from its entry (or from the return of a call it made) up to     *)
(* the next call, return or await; it takes the Segmenter record and gives *)
(* the record with pc naming where control goes next.  SegRun follows the  *)
(* control up to the next await, which is one step of the producer task.   *)
(***************************************************************************)

AwaitPcs == {"wait", "hook", "send", "done"}

\* The pre_hook applied to a text.
HookResult(hook, t) == IF hook = "identity" THEN t ELSE <<>>

\* An _emit without the whitespace test of lines 251-253.
SegEmitKeepsBlank(m) ==
    LET m1 == [m EXCEPT !.buf = <<>>]
    IN  IF m.cur = <<>> THEN [m1 EXCEPT !.pc = "resume"]
        ELSE IF run.pre_hook # "none"
             THEN [m1 EXCEPT !.pc = "hook", !.cur = clean_markdown(m.cur)]
        ELSE [m1 EXCEPT !.pc = "publish", !.cur = clean_markdown(m.cur)]

\* _emit, lines 247-271, called with _buf = m.cur by the caller m.kont.
SegEmit(m) ==
    LET m1 == [m EXCEPT !.buf = <<>>]
    IN  IF m.cur = <<>> \/ Blank(m.cur) THEN [m1 EXCEPT !.pc = "resume"]
        ELSE IF run.pre_hook # "none"
             THEN [m1 EXCEPT !.pc = "hook", !.cur = clean_markdown(m.cur)]
        ELSE [m1 EXCEPT !.pc = "publish", !.cur = clean_markdown(m.cur)]

\* _emit, lines 273-276: a segment is made and numbered, then sent.
SegPublish(m) ==
    IF m.cur # <<>> THEN [m EXCEPT !.pc = "send", !.id = m.id + 1]
    ELSE [m EXCEPT !.pc = "resume"]

\* The code that follows the return of _emit in its caller.
SegResume(m) ==
    LET m1 == [m EXCEPT !.cur = <<>>, !.rest = <<>>]
    IN  CASE m.kont = "tier" ->
               \* _try_segment_at_tier, lines 170-179
               IF ~Blank(m.rest) /\ TokenCount(m.rest) >= run.min_tokens
               THEN [m1 EXCEPT !.buf = m.rest, !.pc = "check"]
               ELSE [m1 EXCEPT !.buf = m.rest, !.pc = "chunkdone"]
          [] m.kont = "force" ->
               \* _emit_with_token_boundary, line 219
               [m1 EXCEPT !.buf = m.rest, !.pc = "chunkdone"]
          [] m.kont = "plain" -> [m1 EXCEPT !.pc = "chunkdone"]
          [] m.kont = "timeout" -> [m1 EXCEPT !.pc = "looptop"]
          [] OTHER -> [m1 EXCEPT !.pc = "close"]

\* _try_segment_at_tier, lines 162-168: the cut at break point bp.
SegCut(m, bp) ==
    [m EXCEPT !.pc = "emit", !.cur = Take(m.buf, bp), !.rest = Drop(m.buf, bp),
              !.kont = "tier"]

\* A _check_and_segment that tries tier 2 whatever the token count.
SegTiersEagerTier2(m, n, bp1, bp2) ==
    IF n >= run.min_tokens /\ bp1 > 0 THEN SegCut(m, bp1)
    ELSE IF bp2 > 0 THEN SegCut(m, bp2)
    ELSE [m EXCEPT !.pc = "chunkdone"]

\* _check_and_segment, lines 150-156, for n tokens in the buffer and the
\* break points bp1 and bp2 of the two tiers.
SegTiers(m, n, bp1, bp2) ==
    IF n >= run.min_tokens /\ bp1 > 0 THEN SegCut(m, bp1)
    ELSE IF 10 * n >= 8 * run.max_tokens /\ bp2 > 0 THEN SegCut(m, bp2)
    ELSE [m EXCEPT !.pc = "chunkdone"]

\* _check_and_segment
SegCheck(m) ==
    IF Blank(m.buf) THEN [m EXCEPT !.pc = "chunkdone"]
    ELSE IF TokenCount(m.buf) >= run.max_tokens THEN [m EXCEPT !.pc = "force"]
    ELSE SegTiers(m, TokenCount(m.buf), FindBreakPoint(m.buf, 1, run.min_tokens),
                  FindBreakPoint(m.buf, 2, run.min_tokens))

\* _emit_with_token_boundary, lines 210-216: the split at the break point.
SegSplit(m, head, tail) ==
    IF ~Blank(head)
    THEN [m EXCEPT !.pc = "emit", !.cur = head, !.rest = tail, !.kont = "force"]
    ELSE [m EXCEPT !.pc = "chunkdone", !.buf = tail]

\* _emit_with_token_boundary, lines 207-212, for the break point best.
SegForceAt(m, best) ==
    SegSplit(m, DecodePrefix(m.buf, best), DecodeSuffix(m.buf, best))

\* _emit_with_token_boundary
SegForce(m) ==
    IF Blank(m.buf) THEN [m EXCEPT !.pc = "chunkdone"]
    ELSE IF TokenCount(m.buf) <= run.max_tokens
         THEN [m EXCEPT !.pc = "emit", !.cur = m.buf, !.rest = <<>>, !.kont = "plain"]
    ELSE SegForceAt(m, FindTokenBreakPoint(m.buf, run.min_tokens, run.max_tokens))

\* A _process_string without the cancellation test of lines 124-125.
SegProcessIgnoresToken(m) ==
    IF m.cur = <<>> THEN [m EXCEPT !.pc = "chunkdone", !.cur = <<>>]
    ELSE [m EXCEPT !.pc = "check", !.cur = <<>>,
                   !.buf = m.buf \o preprocess_text(m.cur)]

\* _process_string, called with the text m.cur.
SegProcess(m) ==
    IF m.cur = <<>> \/ token THEN [m EXCEPT !.pc = "chunkdone", !.cur = <<>>]
    ELSE [m EXCEPT !.pc = "check", !.cur = <<>>,
                   !.buf = m.buf \o preprocess_text(m.cur)]

\* feed, after _process_string has returned: the flush (a string), the
\* cancellation check and the next chunk (a synchronous iterable), the
\* continue of the loop (an asynchronous source).
SegChunkDone(m) ==
    CASE run.kind = "str"  -> [m EXCEPT !.pc = "flush"]
      [] run.kind = "sync" -> IF token THEN [m EXCEPT !.pc = "close"]
                              ELSE [m EXCEPT !.pc = "nextchunk"]
      [] OTHER             -> [m EXCEPT !.pc = "looptop"]

\* feed, lines 78-79: the for loop over a synchronous iterable.
SegNextChunk(m) ==
    IF m.pos >= Len(run.frags) THEN [m EXCEPT !.pc = "flush"]
    ELSE [m EXCEPT !.pc = "process", !.pos = m.pos + 1, !.cur = run.frags[m.pos + 1]]

\* _process_async_iter_with_timeout, lines 90-97: the head of the loop; its
\* return on cancellation leads to the flush of feed.
SegLoopTop(m) == IF token THEN [m EXCEPT !.pc = "flush"] ELSE [m EXCEPT !.pc = "wait"]

\* feed, line 83: flush, after which the producer closes the channel.
SegFlush(m) == [m EXCEPT !.pc = "emit", !.cur = m.buf, !.rest = <<>>, !.kont = "flush"]

\* _segment_producer's finally: send_stream.aclose()
SegClose(m) == [m EXCEPT !.pc = "done", !.cur = <<>>, !.rest = <<>>]

\* A timeout branch that goes back to waiting when the buffer is empty,
\* instead of leaving the loop.
SegTimeoutKeepsWaiting(m) ==
    IF m.buf # <<>>
    THEN [m EXCEPT !.pc = "emit", !.cur = m.buf, !.rest = <<>>, !.kont = "timeout"]
    ELSE [m EXCEPT !.pc = "looptop", !.cur = <<>>, !.rest = <<>>]

\* A timeout branch that emits only a buffer of at least min_tokens tokens.
SegTimeoutRespectsMin(m) ==
    IF m.buf # <<>> /\ TokenCount(m.buf) >= run.min_tokens
    THEN [m EXCEPT !.pc = "emit", !.cur = m.buf, !.rest = <<>>, !.kont = "timeout"]
    ELSE IF m.buf # <<>> THEN [m EXCEPT !.pc = "looptop", !.cur = <<>>, !.rest = <<>>]
    ELSE [m EXCEPT !.pc = "flush", !.cur = <<>>, !.rest = <<>>]

\* _process_async_iter_with_timeout, lines 102-108: the timeout branch.
SegTimeout(m) ==
    IF m.buf # <<>>
    THEN [m EXCEPT !.pc = "emit", !.cur = m.buf, !.rest = <<>>, !.kont = "timeout"]
    ELSE [m EXCEPT !.pc = "flush", !.cur = <<>>, !.rest = <<>>]

\* feed, lines 73-79: the dispatch on the input shape.
SegStart(m) ==
    CASE run.kind = "str"  -> [m EXCEPT !.pc = "process", !.pos = 1, !.cur = run.frags[1]]
      [] run.kind = "sync" -> [m EXCEPT !.pc = "nextchunk"]
      [] OTHER             -> [m EXCEPT !.pc = "looptop"]

\* One transfer of control inside the producer task.
SegStep(m) ==
    CASE m.pc = "emit"      -> SegEmit(m)
      [] m.pc = "publish"   -> SegPublish(m)
      [] m.pc = "resume"    -> SegResume(m)
      [] m.pc = "check"     -> SegCheck(m)
      [] m.pc = "force"     -> SegForce(m)
      [] m.pc = "process"   -> SegProcess(m)
      [] m.pc = "chunkdone" -> SegChunkDone(m)
      [] m.pc = "nextchunk" -> SegNextChunk(m)
      [] m.pc = "looptop"   -> SegLoopTop(m)
      [] m.pc = "flush"     -> SegFlush(m)
      [] m.pc = "close"     -> SegClose(m)
      [] OTHER              -> m

RECURSIVE SegRun(_)
\* The producer task runs without suspending up to its next await.
SegRun(m) ==
    CHOOSE r \in
        {IF n.pc \in AwaitPcs THEN n ELSE SegRun(n) :
            n \in {SegStep(n3) : n3 \in {SegStep(n2) : n2 \in {SegStep(n1) : n1 \in {m}}}}} : TRUE

\* feed, line 75: the input has __aiter__.
IsAsync == run.kind \in {"async", "agen"}

\* The await is inside the move_on_after scope of line 96.
InScope ==
    /\ IsAsync
    /\ \/ sg.pc = "wait"
       \/ sg.pc \in {"hook", "send"} /\ sg.kont \in {"tier", "force", "plain"}

(***************************************************************************)
(* audio_data.py: AudioSpec, AudioChunk and AudioTranscoder.convert.  The   *)
(* sample_width None is written 0.  A chunk carries the identity of its    *)
(* object (id) and its data; env says what the ffmpeg-python module, the   *)
(* ffmpeg binary and the ffmpeg process do in this call.                   *)
(***************************************************************************)

\* AudioSpec("pcm", 16000, 1, 16), the default output_spec.
Pcm16 == [codec |-> "pcm", sample_rate |-> 16000, channels |-> 1, sample_width |-> 16]

Mp3 == [codec |-> "mp3", sample_rate |-> 22050, channels |-> 1, sample_width |-> 0]

\* No AudioSpec (None).
NoSpec == [codec |-> "None", sample_rate |-> 0, channels |-> 0, sample_width |-> 0]

AudioSpecs ==
    [codec : {"pcm", "mp3", "flac"}, sample_rate : {16000, 22050}, channels : {1},
     sample_width : {0, 8, 16}]

\* What the environment of one convert call does: import ffmpeg succeeds
\* and the transcoding returns ("ok"), import ffmpeg raises ImportError,
\* or the transcoding raises; shutil.which finds the binary; the ffmpeg
\* process of the fallback returns or raises.
Envs == [ffmpeg_python : {"ok", "ImportError", "raises"}, binary : BOOLEAN,
         process : {"ok", "raises"}]

\* AudioTranscoder.get_ffmpeg_format
get_ffmpeg_format(spec) ==
    IF spec.codec = "pcm"
    THEN CASE spec.sample_width = 16 -> "s16le"
           [] spec.sample_width = 24 -> "s24le"
           [] spec.sample_width = 32 -> "s32le"
           [] OTHER -> "None"
    ELSE IF spec.codec = "mp3" THEN "mp3"
    ELSE IF spec.codec = "opus" THEN "opus"
    ELSE "None"

NoChunk == [id |-> 0, data |-> "", spec |-> NoSpec]

\* AudioChunk(result, target): a new object.
Transcoded(chunk, target) ==
    [kind |-> "chunk", chunk |-> [id |-> chunk.id + 1, data |-> "transcoded", spec |-> target],
     source |-> NoSpec, target |-> NoSpec]

\* A convert that transcodes also when the chunk is in the target spec.
convertAlways(chunk, target, env) ==
    IF env.ffmpeg_python = "ok" THEN Transcoded(chunk, target)
    ELSE IF /\ env.binary
            /\ get_ffmpeg_format(chunk.spec) # "None"
            /\ get_ffmpeg_format(target) # "None"
            /\ env.process = "ok"
         THEN Transcoded(chunk, target)
    ELSE [kind |-> "UnsupportedFormat", chunk |-> NoChunk, source |-> chunk.spec,
          target |-> target]

\* AudioTranscoder.convert: the chunk returned or the exception raised.
convert(chunk, target, env) ==
    IF chunk.spec = target
    THEN [kind |-> "chunk", chunk |-> chunk, source |-> NoSpec, target |-> NoSpec]
    ELSE IF env.ffmpeg_python = "ok" THEN Transcoded(chunk, target)
    ELSE IF /\ env.binary
            /\ get_ffmpeg_format(chunk.spec) # "None"
            /\ get_ffmpeg_format(target) # "None"
            /\ env.process = "ok"
         THEN Transcoded(chunk, target)
    ELSE [kind |-> "UnsupportedFormat", chunk |-> NoChunk, source |-> chunk.spec,
          target |-> target]

NoResult == [kind |-> "none", chunk |-> NoChunk, source |-> NoSpec, target |-> NoSpec]

\* No convert call is followed.
NoConv == [chunk |-> NoChunk, target |-> NoSpec,
           env |-> [ffmpeg_python |-> "ok", binary |-> FALSE, process |-> "ok"],
           result |-> NoResult]

(***************************************************************************)
(* nano_tts.py and model.py: the NanoTTS object.  args are the arguments   *)
(* of the constructor; tokens[i] is the flag of the i-th StreamToken that  *)
(* was allocated and token the index of self._token (0 for None); calls    *)
(* are the stream() invocations in the order they started; builds counts   *)
(* the calls of a registry factory and again says that cancel() was called *)
(* on a token that was cancelled already.  An engine is named by the spec  *)
(* of the chunks it returns.                                               *)
(***************************************************************************)

\* The names registered by plugins/dummy.py and plugins/edge.py, and a
\* name registered by the application with a factory that awaits.
Registered == {"dummy", "edge", "slow"}

NoArgs == [engine |-> "None", model |-> "None", output_spec |-> NoSpec]

\* No NanoTTS object is followed.
NoLife == [state |-> "none", args |-> NoArgs, engine |-> "None", model |-> "None",
           output_spec |-> NoSpec, token |-> 0, tokens |-> <<>>, calls |-> <<>>,
           builds |-> 0, again |-> FALSE]

(***************************************************************************)
(* nano_tts.py: the tasks of stream()                                      *)
(***************************************************************************)

NoSeg == [id |-> -1, text |-> <<>>]

EmptyMap == [i \in {} |-> <<>>]

\* StreamToken.cancelled()
Cancelled == token

Init ==
    /\ run \in Runs
    /\ token = FALSE
    /\ sg = SegInit
    /\ segQ = <<>>
    /\ wpc = "recv"
    /\ wseg = NoSeg
    /\ audQ = <<>>
    /\ cpc = "recv"
    /\ expected_id = 0
    /\ pending = EmptyMap
    /\ spc = "run"
    /\ published = <<>>
    /\ failed = {}
    /\ out = <<>>
    /\ lost = <<>>
    /\ idle = [k \in 1..Len(run.frags) + 1 |-> 0]
    /\ arrived = <<>>
    /\ earlier = <<>>
    /\ life = NoLife
    /\ conv = NoConv
    /\ recvOpen = TRUE

\* NanoTTS.cancel(), called by the caller between two pairs or by any task.
Cancel ==
    /\ token' = TRUE
    /\ UNCHANGED <<run, sg, segQ, wpc, wseg, audQ, cpc, expected_id, pending,
                   spc, published, failed, out, lost, idle>>
    /\ UNCHANGED arrived
    /\ UNCHANGED earlier
    /\ UNCHANGED <<life, conv, recvOpen>>

\* ---- _segment_producer ----

\* _segment_producer runs up to its first await.
ProducerStart ==
    /\ sg.pc = "start"
    /\ sg' = SegRun(SegStart(sg))
    /\ UNCHANGED <<run, token, segQ, wpc, wseg, audQ, cpc, expected_id, pending,
                   spc, published, failed, out, lost, idle>>
    /\ UNCHANGED arrived
    /\ UNCHANGED earlier
    /\ UNCHANGED <<life, conv, recvOpen>>

\* The deadline of line 96 has cancelled an __anext__ of an asynchronous
\* generator: the cancellation is raised inside the generator and ends it,
\* and every later __anext__ raises StopAsyncIteration.
SourceDead == run.kind = "agen" /\ \E k \in DOMAIN idle : idle[k] > 0

\* async_iter.__anext__() returns the next fragment, which is processed.
Fragment ==
    /\ sg.pc = "wait"
    /\ sg.pos < Len(run.frags)
    /\ ~SourceDead
    /\ sg' = SegRun(SegProcess([sg EXCEPT !.pos = sg.pos + 1, !.cur = run.frags[sg.pos + 1]]))
    /\ UNCHANGED idle
    /\ UNCHANGED <<run, token, segQ, wpc, wseg, audQ, cpc, expected_id, pending,
                   spc, published, failed, out, lost>>
    /\ UNCHANGED arrived
    /\ UNCHANGED earlier
    /\ UNCHANGED <<life, conv, recvOpen>>

\* async_iter.__anext__() raises StopAsyncIteration.
SourceEnd ==
    /\ sg.pc = "wait"
    /\ sg.pos >= Len(run.frags) \/ SourceDead
    /\ sg' = SegRun(SegFlush(sg))
    /\ UNCHANGED <<run, token, segQ, wpc, wseg, audQ, cpc, expected_id, pending,
                   spc, published, failed, out, lost, idle>>
    /\ UNCHANGED arrived
    /\ UNCHANGED earlier
    /\ UNCHANGED <<life, conv, recvOpen>>

\* The deadline of move_on_after passes while the next fragment is awaited.
IdleTimeout ==
    /\ InScope
    /\ sg.pc = "wait"
    /\ sg' = SegRun(SegTimeout(sg))
    /\ idle' = [idle EXCEPT ![sg.pos + 1] = @ + 1]
    /\ UNCHANGED <<run, token, segQ, wpc, wseg, audQ, cpc, expected_id, pending,
                   spc, published, failed, out, lost>>
    /\ UNCHANGED arrived
    /\ UNCHANGED earlier
    /\ UNCHANGED <<life, conv, recvOpen>>

\* The deadline of move_on_after passes while the processing of a fragment
\* awaits the pre_hook or the send: the scope cancels the await, the frames
\* of _emit and of its callers unwind, and the timeout branch runs.
StepTimeout ==
    /\ InScope
    /\ sg.pc \in {"hook", "send"}
    /\ sg' = SegRun(SegTimeout(sg))
    /\ lost' = Append(lost, sg.cur \o sg.rest)
    /\ UNCHANGED <<run, token, segQ, wpc, wseg, audQ, cpc, expected_id, pending,
                   spc, published, failed, out, idle>>
    /\ UNCHANGED arrived
    /\ UNCHANGED earlier
    /\ UNCHANGED <<life, conv, recvOpen>>

\* The pre_hook returns.
HookReturn ==
    /\ sg.pc = "hook"
    /\ sg' = SegRun(SegPublish([sg EXCEPT !.cur = HookResult(run.pre_hook, sg.cur)]))
    /\ UNCHANGED <<run, token, segQ, wpc, wseg, audQ, cpc, expected_id, pending,
                   spc, published, failed, out, lost, idle>>
    /\ UNCHANGED arrived
    /\ UNCHANGED earlier
    /\ UNCHANGED <<life, conv, recvOpen>>

\* send_stream.send(segment) completes: the channel has room.
ProducerSend ==
    /\ sg.pc = "send"
    /\ recvOpen
    /\ Len(segQ) < SegCap
    /\ segQ' = Append(segQ, [id |-> sg.id - 1, text |-> sg.cur])
    /\ published' = Append(published, [id |-> sg.id - 1, text |-> sg.cur])
    /\ sg' = SegRun(SegResume(sg))
    /\ UNCHANGED <<run, token, wpc, wseg, audQ, cpc, expected_id, pending,
                   spc, failed, out, lost, idle>>
    /\ UNCHANGED arrived
    /\ UNCHANGED earlier
    /\ UNCHANGED <<life, conv, recvOpen>>

\* ---- _tts_worker ----

\* A worker without the cancellation check of line 96.
WorkerRecvUnchecked ==
    /\ wpc = "recv"
    /\ segQ # <<>>
    /\ segQ' = Tail(segQ)
    /\ wpc' = "synth" /\ wseg' = Head(segQ)
    /\ UNCHANGED <<run, token, sg, audQ, cpc, expected_id, pending,
                   spc, published, failed, out, lost, idle>>
    /\ UNCHANGED arrived
    /\ UNCHANGED earlier
    /\ UNCHANGED <<life, conv, recvOpen>>

\* The worker receives a segment; it leaves the loop when cancelled.
WorkerRecv ==
    /\ wpc = "recv"
    /\ segQ # <<>>
    /\ segQ' = Tail(segQ)
    /\ IF Cancelled
       THEN wpc' = "done" /\ wseg' = NoSeg
       ELSE wpc' = "synth" /\ wseg' = Head(segQ)
    /\ UNCHANGED <<run, token, sg, audQ, cpc, expected_id, pending,
                   spc, published, failed, out, lost, idle>>
    /\ UNCHANGED arrived
    /\ UNCHANGED earlier
    /\ UNCHANGED <<life, conv, recvOpen>>

\* The segment channel is closed and empty: the loop ends.
WorkerEnd ==
    /\ wpc = "recv"
    /\ segQ = <<>>
    /\ sg.pc = "done"
    /\ wpc' = "done"
    /\ UNCHANGED <<run, token, sg, segQ, wseg, audQ, cpc, expected_id, pending,
                   spc, published, failed, out, lost, idle>>
    /\ UNCHANGED arrived
    /\ UNCHANGED earlier
    /\ UNCHANGED <<life, conv, recvOpen>>

\* A worker that a raised exception takes out of its loop.
WorkerSynthFailStops ==
    /\ wpc = "synth"
    /\ \E ok \in BOOLEAN :
         IF ok
         THEN wpc' = "send" /\ UNCHANGED <<wseg, failed>>
         ELSE wpc' = "done" /\ wseg' = NoSeg /\ failed' = failed \cup {wseg.id}
    /\ UNCHANGED <<run, token, sg, segQ, audQ, cpc, expected_id, pending,
                   spc, published, out, lost, idle>>
    /\ UNCHANGED arrived
    /\ UNCHANGED earlier
    /\ UNCHANGED <<life, conv, recvOpen>>

\* A worker that calls engine.synth again for a segment whose call raised.
WorkerSynthRetries ==
    /\ wpc = "synth"
    /\ \E ok \in BOOLEAN :
         IF ok
         THEN wpc' = "send" /\ UNCHANGED <<wseg, failed>>
         ELSE wpc' = "synth" /\ wseg' = wseg /\ failed' = failed \cup {wseg.id}
    /\ UNCHANGED <<run, token, sg, segQ, audQ, cpc, expected_id, pending,
                   spc, published, out, lost, idle>>
    /\ UNCHANGED arrived
    /\ UNCHANGED earlier
    /\ UNCHANGED <<life, conv, recvOpen>>

\* engine.synth and AudioTranscoder.convert return a chunk or raise.
WorkerSynth ==
    /\ wpc = "synth"
    /\ \E ok \in BOOLEAN :
         IF ok
         THEN wpc' = "send" /\ UNCHANGED <<wseg, failed>>
         ELSE wpc' = "recv" /\ wseg' = NoSeg /\ failed' = failed \cup {wseg.id}
    /\ UNCHANGED <<run, token, sg, segQ, audQ, cpc, expected_id, pending,
                   spc, published, out, lost, idle>>
    /\ UNCHANGED arrived
    /\ UNCHANGED earlier
    /\ UNCHANGED <<life, conv, recvOpen>>

\* send_stream.send((segment.id, final_chunk, segment.text)) completes.
WorkerSend ==
    /\ wpc = "send"
    /\ Len(audQ) < AudCap
    /\ audQ' = Append(audQ, wseg)
    /\ wpc' = "recv"
    /\ wseg' = NoSeg
    /\ UNCHANGED <<run, token, sg, segQ, cpc, expected_id, pending,
                   spc, published, failed, out, lost, idle>>
    /\ UNCHANGED arrived
    /\ UNCHANGED earlier
    /\ UNCHANGED <<life, conv, recvOpen>>

\* ---- _reorder_consumer and the body of stream() ----

\* A body of stream() without the test of line 65.
DeliverUnchecked(r) ==
    cpc' = "yield" /\ spc' = spc /\ out' = Append(out, r)

\* stream(), lines 65-67, on a pair yielded by the consumer: the pair goes
\* to the caller, or stream() returns and waits for its task group.
Deliver(r) ==
    IF Cancelled
    THEN cpc' = "done" /\ spc' = "join" /\ out' = out
    ELSE cpc' = "yield" /\ spc' = spc /\ out' = Append(out, r)

\* A consumer that yields every result as it arrives, without the test of
\* line 126.
ConsumerRecvUnordered ==
    /\ spc = "run"
    /\ cpc = "recv"
    /\ audQ # <<>>
    /\ audQ' = Tail(audQ)
    /\ arrived' = Append(arrived, Head(audQ).id)
    /\ IF Cancelled
       THEN cpc' = "done" /\ spc' = "join" /\ UNCHANGED <<pending, out>>
       ELSE Deliver(Head(audQ)) /\ UNCHANGED pending
    /\ UNCHANGED <<run, token, sg, segQ, wpc, wseg, expected_id,
                   published, failed, lost, idle>>
    /\ UNCHANGED earlier
    /\ UNCHANGED <<life, conv, recvOpen>>

\* The consumer receives a result (lines 122-127 and 135-136).
ConsumerRecv ==
    /\ spc = "run"
    /\ cpc = "recv"
    /\ audQ # <<>>
    /\ audQ' = Tail(audQ)
    /\ arrived' = Append(arrived, Head(audQ).id)
    /\ LET r == Head(audQ)
       IN  IF Cancelled
           THEN cpc' = "done" /\ spc' = "join" /\ UNCHANGED <<pending, out>>
           ELSE IF r.id = expected_id
                THEN Deliver(r) /\ UNCHANGED pending
                ELSE /\ pending' = (r.id :> r.text) @@ pending
                     /\ UNCHANGED <<cpc, spc, out>>
    /\ UNCHANGED <<run, token, sg, segQ, wpc, wseg, expected_id,
                   published, failed, lost, idle>>
    /\ UNCHANGED earlier
    /\ UNCHANGED <<life, conv, recvOpen>>

\* A consumer that does not return on close while results are buffered.
ConsumerEndWaitsForGaps ==
    /\ spc = "run"
    /\ cpc = "recv"
    /\ audQ = <<>>
    /\ wpc = "done"
    /\ DOMAIN pending = {}
    /\ cpc' = "done"
    /\ spc' = "join"
    /\ UNCHANGED <<run, token, sg, segQ, wpc, wseg, audQ, expected_id, pending,
                   published, failed, out, lost, idle>>
    /\ UNCHANGED arrived
    /\ UNCHANGED earlier
    /\ UNCHANGED <<life, conv, recvOpen>>

\* A consumer that, on close, yields the first result still buffered.
ConsumerEndDrains ==
    /\ spc = "run"
    /\ cpc = "recv"
    /\ audQ = <<>>
    /\ wpc = "done"
    /\ cpc' = "done"
    /\ spc' = "join"
    /\ out' = IF DOMAIN pending = {} THEN out
              ELSE Append(out, [id |-> Least(DOMAIN pending),
                                text |-> pending[Least(DOMAIN pending)]])
    /\ UNCHANGED <<run, token, sg, segQ, wpc, wseg, audQ, expected_id, pending,
                   published, failed, lost, idle>>
    /\ UNCHANGED arrived
    /\ UNCHANGED earlier
    /\ UNCHANGED <<life, conv, recvOpen>>

\* The result channel is closed and empty: the consumer returns.
ConsumerEnd ==
    /\ spc = "run"
    /\ cpc = "recv"
    /\ audQ = <<>>
    /\ wpc = "done"
    /\ cpc' = "done"
    /\ spc' = "join"
    /\ UNCHANGED <<run, token, sg, segQ, wpc, wseg, audQ, expected_id, pending,
                   published, failed, out, lost, idle>>
    /\ UNCHANGED arrived
    /\ UNCHANGED earlier
    /\ UNCHANGED <<life, conv, recvOpen>>

\* A consumer that goes back to receive after a yield without looking into
\* pending.
CallerResumeNoDrain ==
    /\ spc = "run"
    /\ cpc = "yield"
    /\ expected_id' = expected_id + 1
    /\ cpc' = "recv" /\ UNCHANGED <<pending, spc, out>>
    /\ UNCHANGED <<run, token, sg, segQ, wpc, wseg, audQ,
                   published, failed, lost, idle>>
    /\ UNCHANGED arrived
    /\ UNCHANGED earlier
    /\ UNCHANGED <<life, conv, recvOpen>>

\* A consumer that yields a buffered result and keeps its key in pending.
CallerResumeKeepsKey ==
    /\ spc = "run"
    /\ cpc = "yield"
    /\ expected_id' = expected_id + 1
    /\ IF expected_id + 1 \in DOMAIN pending
       THEN /\ pending' = pending
            /\ Deliver([id |-> expected_id + 1, text |-> pending[expected_id + 1]])
       ELSE cpc' = "recv" /\ UNCHANGED <<pending, spc, out>>
    /\ UNCHANGED <<run, token, sg, segQ, wpc, wseg, audQ,
                   published, failed, lost, idle>>
    /\ UNCHANGED arrived
    /\ UNCHANGED earlier
    /\ UNCHANGED <<life, conv, recvOpen>>

\* The caller asks for the next pair: the consumer resumes after its yield
\* (lines 128-134).
CallerResume ==
    /\ spc = "run"
    /\ cpc = "yield"
    /\ expected_id' = expected_id + 1
    /\ IF expected_id + 1 \in DOMAIN pending
       THEN /\ pending' = [i \in DOMAIN pending \ {expected_id + 1} |-> pending[i]]
            /\ Deliver([id |-> expected_id + 1, text |-> pending[expected_id + 1]])
       ELSE cpc' = "recv" /\ UNCHANGED <<pending, spc, out>>
    /\ UNCHANGED <<run, token, sg, segQ, wpc, wseg, audQ,
                   published, failed, lost, idle>>
    /\ UNCHANGED arrived
    /\ UNCHANGED earlier
    /\ UNCHANGED <<life, conv, recvOpen>>

\* The task group of stream() exits once both tasks have finished.
Join ==
    /\ spc = "join"
    /\ sg.pc = "done"
    /\ wpc = "done"
    /\ spc' = "done"
    /\ UNCHANGED <<run, token, sg, segQ, wpc, wseg, audQ, cpc, expected_id,
                   pending, published, failed, out, lost, idle>>
    /\ UNCHANGED arrived
    /\ UNCHANGED earlier
    /\ UNCHANGED <<life, conv, recvOpen>>

ProducerNext ==
    \/ ProducerStart
    \/ Fragment
    \/ SourceEnd
    \/ IdleTimeout
    \/ StepTimeout
    \/ HookReturn
    \/ ProducerSend

WorkerNext ==
    \/ WorkerRecv
    \/ WorkerEnd
    \/ WorkerSynth
    \/ WorkerSend

ConsumerNext ==
    \/ ConsumerRecv
    \/ ConsumerEnd
    \/ CallerResume
    \/ Join

Next ==
    \/ Cancel
    \/ ProducerNext
    \/ WorkerNext
    \/ ConsumerNext

Spec == Init /\ [][Next]_vars

\* The event loop runs every task that can take a step, the engine call
\* returns or raises, and the caller keeps asking for the next pair.
FairSpec ==
    /\ Spec
    /\ WF_vars(ProducerNext)
    /\ WF_vars(WorkerNext)
    /\ WF_vars(ConsumerNext)

(***************************************************************************)
(* The reorder consumer fed in arbitrary order.  _reorder_consumer is      *)
(* written for results that reach recv_stream in any order; the single     *)
(* worker of stream() sends them in id order, so here a pool takes the     *)
(* segments in any order and the consumer and the body of stream() are the *)
(* actions above.                                                          *)
(***************************************************************************)

MaxSegs == 3

ReorderRun == [kind |-> "str", frags |-> << <<"a">> >>, min_tokens |-> 1,
               max_tokens |-> 15, pre_hook |-> "none"]

ReorderInit ==
    /\ run = ReorderRun
    /\ token = FALSE
    /\ sg = [SegInit EXCEPT !.pc = "done"]
    /\ \E n \in 0..MaxSegs :
         /\ segQ = [i \in 1..n |-> [id |-> i - 1, text |-> <<"a">>]]
         /\ published = segQ
    /\ wpc = "pool"
    /\ wseg = NoSeg
    /\ audQ = <<>>
    /\ cpc = "recv"
    /\ expected_id = 0
    /\ pending = EmptyMap
    /\ spc = "run"
    /\ failed = {}
    /\ out = <<>>
    /\ lost = <<>>
    /\ idle = [k \in 1..2 |-> 0]
    /\ arrived = <<>>
    /\ earlier = <<>>
    /\ life = NoLife
    /\ conv = NoConv
    /\ recvOpen = TRUE

\* Some worker of the pool finishes a segment: its result is sent, or the
\* synthesis raised and the segment is skipped.
PoolSynth ==
    /\ wpc = "pool"
    /\ \E k \in 1..Len(segQ) : \E ok \in BOOLEAN :
         /\ segQ' = SubSeq(segQ, 1, k - 1) \o SubSeq(segQ, k + 1, Len(segQ))
         /\ IF ok
            THEN Len(audQ) < AudCap /\ audQ' = Append(audQ, segQ[k]) /\ UNCHANGED failed
            ELSE failed' = failed \cup {segQ[k].id} /\ UNCHANGED audQ
    /\ UNCHANGED <<run, token, sg, wpc, wseg, cpc, expected_id, pending,
                   spc, published, out, lost, idle, arrived>>
    /\ UNCHANGED earlier
    /\ UNCHANGED <<life, conv, recvOpen>>

\* Every worker has finished: the result channel is closed.
PoolClose ==
    /\ wpc = "pool"
    /\ segQ = <<>>
    /\ wpc' = "done"
    /\ UNCHANGED <<run, token, sg, segQ, wseg, audQ, cpc, expected_id, pending,
                   spc, published, failed, out, lost, idle, arrived>>
    /\ UNCHANGED earlier
    /\ UNCHANGED <<life, conv, recvOpen>>

ReorderNext ==
    \/ Cancel
    \/ PoolSynth
    \/ PoolClose
    \/ ConsumerRecv
    \/ ConsumerEnd
    \/ CallerResume
    \/ Join

SpecReorder == ReorderInit /\ [][ReorderNext]_vars

(***************************************************************************)
(* Properties                                                              *)
(***************************************************************************)

\* A step of one of the three tasks of stream() (cancel() is the caller's).
TaskNext == ProducerNext \/ WorkerNext \/ ConsumerNext

\* Synthesis of the segment did not raise.
Succeeded(seg) == seg.id \notin failed

\* The segments in flight: queued for the worker, in synthesis, queued for
\* the consumer, buffered for reordering.
InFlight ==
    Len(segQ) + (IF wpc \in {"synth", "send"} THEN 1 ELSE 0) + Len(audQ)
        + Cardinality(DOMAIN pending)

\* C1: the pairs reach the caller in strictly ascending id order, whatever
\* the order in which the results reached the reorder consumer.
C1_AscendingOrder ==
    \A i, j \in 1..Len(out) : i < j => out[i].id < out[j].id

\* Results arrived out of order, were buffered, and were all yielded.
C1_Witness ==
    /\ Len(out) = MaxSegs
    /\ \E i, j \in 1..Len(arrived) : i < j /\ arrived[i] > arrived[j]

\* C2: in an uncancelled run that has ended, the pairs yielded are exactly
\* the published segments whose synthesis succeeded, in id order: a failed
\* segment is absent and does not hold back the segments after it.
C2_SucceededAreYielded ==
    (spc = "done" /\ ~token) => out = SelectSeq(published, Succeeded)

\* C3: once cancel() has returned no further pair is yielded, whatever is
\* queued or buffered for reordering.
C3_NoYieldAfterCancel == [][token => out' = out]_vars

\* Result 1 arrived before result 0 and was buffered; the caller cancelled
\* after the pair of result 0; stream() took the buffered pair of result 1
\* and returned without yielding it, a further result still being queued.
C3_Witness ==
    /\ token
    /\ arrived = <<1, 0>>
    /\ Len(out) = 1
    /\ 1 \notin DOMAIN pending
    /\ spc \in {"join", "done"}
    /\ audQ # <<>>

\* C4: after cancel() no task stays blocked: until stream() has returned
\* some task of the run can take a step.
C4_CancelNeverBlocks == token => (spc = "done" \/ ENABLED TaskNext)

\* C5: without cancel the run ends, failures included, and the results the
\* consumer drops on close are buffered under ids not below the expected one.
C5_Terminates ==
    /\ <>(spc = "done" \/ token)
    /\ [](cpc = "done" => \A k \in DOMAIN pending : k >= expected_id)

\* An uncancelled run has ended with a failed segment and buffered results.
C5_Witness ==
    /\ spc = "done"
    /\ ~token
    /\ failed # {}
    /\ DOMAIN pending # {}

\* C6: the ids of the published segments are 0, 1, 2, ... with no gap and in
\* order of publication, also when the idle timeout runs during a send or a
\* pre_hook.
C6_ContiguousIds ==
    \A i \in 1..Len(published) : published[i].id = i - 1

\* Segments were published and the idle timeout then cancelled a send
\* whose segment had already been numbered.
C6_Witness ==
    /\ Len(published) >= 1
    /\ lost # <<>>
    /\ sg.id > Len(published)

\* C7: the idle timeout never interrupts the processing of a received
\* fragment: no buffered text and no cut segment is discarded.
C7_NothingDiscarded == lost = <<>>

\* C8: an idle timeout on an empty buffer is a no-op and the wait repeats,
\* so a source that is exhausted uncancelled has had every fragment consumed.
C8_AllFragmentsConsumed ==
    (IsAsync /\ sg.pc = "done" /\ ~token /\ lost = <<>>)
        => sg.pos = Len(run.frags)

\* The source idled past the timeout before its second and third fragment.
TimeoutScenario ==
    /\ IsAsync
    /\ Len(run.frags) = 3
    /\ idle[1] = 0
    /\ idle[2] >= 1
    /\ sg.pos >= 2 => idle[3] >= 1

\* C9: a source that yields a fragment, idles past the timeout, yields a
\* second, idles again and yields a third gets at least two segments
\* published, the first of which contains the first fragment.
C9_TwoSegments ==
    (TimeoutScenario /\ sg.pc = "done" /\ ~token /\ lost = <<>>)
        => /\ Len(published) >= 2
           /\ Take(published[1].text, Len(run.frags[1])) = run.frags[1]

\* C10: the segments in flight never exceed the two channel capacities plus
\* the one in synthesis, failures included.
C10_BoundedInFlight == InFlight <= SegCap + AudCap + 1

\* The ids of the segments in the sequence q.
Ids(q) == {q[i].id : i \in 1..Len(q)}

\* The ids of the segments the worker has called the engine for.
Attempted ==
    failed \cup Ids(audQ) \cup {arrived[i] : i \in 1..Len(arrived)}
        \cup (IF wpc \in {"synth", "send"} THEN {wseg.id} ELSE {})

\* C11: when the synthesis of a segment raises, the worker publishes no
\* result for it, stream() goes on undisturbed, and the worker returns to
\* receiving: uncancelled, it has called the engine for every published
\* segment by the time it ends.
C11_FailureSkipped ==
    /\ [][(wpc = "synth" /\ failed' # failed)
            => (wpc' = "recv" /\ audQ' = audQ /\ spc' = spc /\ out' = out)]_vars
    /\ [](\A f \in failed :
             f \notin Ids(audQ) /\ f \notin DOMAIN pending /\ f \notin Ids(out)
             /\ \A i \in 1..Len(arrived) : arrived[i] # f)
    /\ []((wpc = "done" /\ ~token) => Attempted = Ids(published))

\* A segment failed and the result of a later one reached the consumer.
C11_Witness ==
    \E f \in failed : \E i \in 1..Len(arrived) : arrived[i] > f

(***************************************************************************)
(* The Segmenter alone: feed(text_or_iter) on a send_stream whose other    *)
(* end is read by a plain receiver, for a range of texts, input shapes and *)
(* token limits.  After a feed of a string the same text can be fed again, *)
(* to a new Segmenter, as one-character fragments.                         *)
(***************************************************************************)

\* "Dr. Abe"
TxtDr == <<"D", "r", ".", " ", "A", "b", "e">>

\* "AU+3002 BU+FF01 CU+FF1F"
TxtCjk == <<"A", "U3002", "B", "UFF01", "C", "UFF1F">>

\* "A!B!"
TxtBang == <<"A", "!", "B", "!">>

\* "a, b c d e f"
TxtComma == <<"a", ",", " ", "b", " ", "c", " ", "d", " ", "e", " ", "f">>

\* "**A! B**"
TxtBold == <<"*", "*", "A", "!", " ", "B", "*", "*">>

\* "# "
TxtHash == <<"#", " ">>

\* "A! "
TxtTrail == <<"A", "!", " ">>

\* "a b c d e"
TxtWords == <<"a", " ", "b", " ", "c", " ", "d", " ", "e">>

\* "A! B!"
\* A list marker and nothing else.
TxtList == <<"-", " ">>

TxtTwo == <<"A", "!", " ", "B", "!">>

\* Four tokens and a comma: 0.8 * max_tokens is reached with max_tokens = 5.
TxtSoft == <<"a", ",", " ", "b", " ", "c">>

SegTexts == {TxtDr, TxtCjk, TxtBang, TxtComma, TxtBold, TxtHash, TxtTrail, TxtWords, TxtTwo}

\* A text as a stream of one-character fragments.
Chars(t) == [i \in 1..Len(t) |-> <<t[i]>>]

\* The text that a run feeds.
RECURSIVE Concat(_)
Concat(q) == IF q = <<>> THEN <<>> ELSE Head(q) \o Concat(Tail(q))

\* The texts that are also fed as an asynchronous stream of characters.
ShortTexts == {TxtBang, TxtHash, TxtTrail, TxtTwo}

SegRuns ==
    { [kind |-> k, frags |-> IF k = "str" THEN <<t>> ELSE Chars(t),
       min_tokens |-> c[1], max_tokens |-> c[2], pre_hook |-> "none"] :
         k \in {"str", "sync"}, t \in SegTexts, c \in {<<1, 15>>, <<1, 4>>} }
    \cup
    { [kind |-> "async", frags |-> Chars(t),
       min_tokens |-> 1, max_tokens |-> 15, pre_hook |-> "none"] : t \in ShortTexts }
    \cup
    { [kind |-> "async", frags |-> <<TxtWords, <<" ", "f">> >>,
       min_tokens |-> 1, max_tokens |-> 2, pre_hook |-> "none"],
      [kind |-> "str", frags |-> <<TxtBold>>,
       min_tokens |-> 1, max_tokens |-> 15, pre_hook |-> "identity"],
      [kind |-> "str", frags |-> <<TxtList>>,
       min_tokens |-> 1, max_tokens |-> 15, pre_hook |-> "identity"],
      [kind |-> "str", frags |-> <<Txt5>>,
       min_tokens |-> 3, max_tokens |-> 15, pre_hook |-> "none"],
      [kind |-> "str", frags |-> <<TxtSoft>>,
       min_tokens |-> 1, max_tokens |-> 5, pre_hook |-> "none"] }

SegSpecInit ==
    /\ run \in SegRuns
    /\ token = FALSE
    /\ sg = SegInit
    /\ segQ = <<>>
    /\ wpc = "recv"
    /\ wseg = NoSeg
    /\ audQ = <<>>
    /\ cpc = "recv"
    /\ expected_id = 0
    /\ pending = EmptyMap
    /\ spc = "run"
    /\ published = <<>>
    /\ failed = {}
    /\ out = <<>>
    /\ lost = <<>>
    /\ idle = [k \in 1..Len(run.frags) + 1 |-> 0]
    /\ arrived = <<>>
    /\ earlier = <<>>
    /\ life = NoLife
    /\ conv = NoConv
    /\ recvOpen = TRUE

\* The receiver at the other end of send_stream takes a segment.
Sink ==
    /\ recvOpen
    /\ segQ # <<>>
    /\ segQ' = Tail(segQ)
    /\ UNCHANGED <<run, token, sg, wpc, wseg, audQ, cpc, expected_id, pending,
                   spc, published, failed, out, lost, idle, arrived, earlier>>
    /\ UNCHANGED <<life, conv, recvOpen>>

\* The feed of a string is over: the same text is fed to a new Segmenter
\* as one-character fragments, synchronous or asynchronous.
Again ==
    /\ run.kind = "str"
    /\ sg.pc = "done"
    /\ segQ = <<>>
    /\ ~token
    /\ earlier = <<>>
    /\ published # <<>>
    /\ \E k \in {"sync"} \cup (IF run.frags[1] \in ShortTexts THEN {"async"} ELSE {}) :
         run' = [run EXCEPT !.kind = k, !.frags = Chars(run.frags[1])]
    /\ earlier' = published
    /\ published' = <<>>
    /\ sg' = SegInit
    /\ idle' = [k \in 1..Len(run.frags[1]) + 1 |-> 0]
    /\ UNCHANGED <<token, segQ, wpc, wseg, audQ, cpc, expected_id, pending,
                   spc, failed, out, lost, arrived>>
    /\ UNCHANGED <<life, conv, recvOpen>>

\* The receiver closes its end of the channel (aclose of the receive
\* stream, or the end of its async with block).
SinkClose ==
    /\ recvOpen
    /\ recvOpen' = FALSE
    /\ UNCHANGED <<run, token, sg, segQ, wpc, wseg, audQ, cpc, expected_id, pending,
                   spc, published, failed, out, lost, idle, arrived, earlier>>
    /\ UNCHANGED <<life, conv>>

\* _emit, line 276, with the receiving end closed: send raises
\* BrokenResourceError, whether it was waiting for room or has just been
\* called; no frame of the Segmenter catches it and feed() ends by it.
BrokenSend ==
    /\ sg.pc = "send"
    /\ ~recvOpen
    /\ sg' = [sg EXCEPT !.pc = "raised"]
    /\ UNCHANGED <<run, token, segQ, wpc, wseg, audQ, cpc, expected_id, pending,
                   spc, published, failed, out, lost, idle, arrived, earlier>>
    /\ UNCHANGED <<life, conv, recvOpen>>

SegNext ==
    \/ Cancel
    \/ ProducerNext
    \/ Sink
    \/ Again
    \/ SinkClose
    \/ BrokenSend

SegSpec == SegSpecInit /\ [][SegNext]_vars

(***************************************************************************)
(* The NanoTTS object alone: its constructor, cancel() and up to MaxCalls  *)
(* stream() invocations, which may overlap.  An invocation is followed     *)
(* segment by segment: NSegs segments go through the engine, the transcoder *)
(* and the reorder consumer, one per step.                                 *)
(***************************************************************************)

MaxCalls == 2

\* The segments of one invocation.
NSegs == 2

\* The variables of the tasks of one stream() call.
pipe == <<run, token, sg, segQ, wpc, wseg, audQ, cpc, expected_id, pending,
          spc, published, failed, out, lost, idle, arrived, earlier, recvOpen>>

\* No stream() call is followed task by task.
PipelineIdle ==
    /\ recvOpen = TRUE
    /\ run = ReorderRun
    /\ token = FALSE
    /\ sg = [SegInit EXCEPT !.pc = "done"]
    /\ segQ = <<>>
    /\ wpc = "done"
    /\ wseg = NoSeg
    /\ audQ = <<>>
    /\ cpc = "done"
    /\ expected_id = 0
    /\ pending = EmptyMap
    /\ spc = "done"
    /\ published = <<>>
    /\ failed = {}
    /\ out = <<>>
    /\ lost = <<>>
    /\ idle = [k \in 1..2 |-> 0]
    /\ arrived = <<>>
    /\ earlier = <<>>

\* The arguments NanoTTS is constructed with.
Args == [engine : {"None", "mp3"}, model : {"None", "slow", "nope"},
         output_spec : {NoSpec, Mp3}]

\* The spec of the chunks of an engine: the CallableEngine of build_dummy
\* returns pcm (plugins/dummy.py 14-15).
RawSpec(engine) == IF engine = "mp3" THEN Mp3 ELSE Pcm16

\* The environments of the convert calls of a worker: ffmpeg-python works,
\* only the binary works, nothing works.
WorkerEnvs ==
    { [ffmpeg_python |-> "ok", binary |-> TRUE, process |-> "ok"],
      [ffmpeg_python |-> "ImportError", binary |-> TRUE, process |-> "ok"],
      [ffmpeg_python |-> "raises", binary |-> FALSE, process |-> "raises"] }

LifeInit ==
    /\ PipelineIdle
    /\ conv = NoConv
    /\ \E a \in Args : life = [NoLife EXCEPT !.state = "args", !.args = a]

\* A constructor without the test of lines 30-31.
NanoTTS_initNoCheck ==
    /\ life.state = "args"
    /\ LET a     == life.args
           model == IF a.engine = "None" /\ a.model = "None" THEN "dummy" ELSE a.model
       IN  life' = [life EXCEPT !.state = "ok", !.engine = a.engine, !.model = model,
                       !.output_spec = IF a.output_spec = NoSpec THEN Pcm16
                                       ELSE a.output_spec,
                       !.token = 0]
    /\ UNCHANGED pipe
    /\ UNCHANGED conv

\* NanoTTS.__init__
NanoTTS_init ==
    /\ life.state = "args"
    /\ LET a     == life.args
           model == IF a.engine = "None" /\ a.model = "None" THEN "dummy" ELSE a.model
       IN  life' = IF a.engine # "None" /\ model # "None"
                   THEN [life EXCEPT !.state = "ValueError"]
                   ELSE [life EXCEPT !.state = "ok", !.engine = a.engine, !.model = model,
                            !.output_spec = IF a.output_spec = NoSpec THEN Pcm16
                                            ELSE a.output_spec,
                            !.token = 0]
    /\ UNCHANGED pipe
    /\ UNCHANGED conv

\* A cancel that flips the flag.
StreamTokenCancelToggles(flag) == ~flag

\* StreamToken.cancel: the new value of _cancelled.
StreamToken_cancel(flag) == TRUE

\* NanoTTS.cancel; the invocations that are running have seen a cancel.
NanoTTS_cancel ==
    /\ life.state = "ok"
    /\ life' = [life EXCEPT
                  !.again = @ \/ (life.token # 0 /\ life.tokens[life.token]),
                  !.tokens = IF life.token = 0 THEN life.tokens
                             ELSE [life.tokens EXCEPT ![life.token] = StreamToken_cancel(@)],
                  !.calls = [k \in 1..Len(life.calls) |->
                               IF life.calls[k].pc \in {"build", "run"}
                               THEN [life.calls[k] EXCEPT !.hit = TRUE]
                               ELSE life.calls[k]]]
    /\ UNCHANGED pipe
    /\ UNCHANGED conv

\* A stream() that keeps the token of the object when there is one.
NewTokenReused(l) ==
    IF l.token # 0 THEN l
    ELSE [l EXCEPT !.tokens = Append(@, FALSE), !.token = Len(l.tokens) + 1]

\* self._token = StreamToken()
NewToken(l) == [l EXCEPT !.tokens = Append(@, FALSE), !.token = Len(l.tokens) + 1]

\* A get without the lookup test.
ModelManagerGetAny(name) == "build"

\* ModelManager.get: ValueError for an unknown name, else the factory is
\* awaited.
ModelManager_get(name) == IF name \notin Registered THEN "ValueError" ELSE "build"

\* stream(), lines 50-53, up to the await of the factory or, when the
\* factory does not suspend or an engine exists, up to the task group.
\* build_dummy and build_edge hold no await.
NanoTTS_stream ==
    /\ life.state = "ok"
    /\ Len(life.calls) < MaxCalls
    /\ \E suspends \in BOOLEAN :
         LET l1   == NewToken(life)
             call == [pc |-> "run", own |-> l1.token, next |-> 0, out |-> <<>>,
                      hit |-> FALSE, cut |-> FALSE, stalled |-> FALSE]
         IN  life' =
               IF l1.engine # "None"
               THEN [l1 EXCEPT !.calls = Append(@, call)]
               ELSE IF ModelManager_get(l1.model) = "ValueError"
               THEN [l1 EXCEPT !.calls = Append(@, [call EXCEPT !.pc = "raised"])]
               ELSE IF suspends /\ l1.model = "slow"
               THEN [l1 EXCEPT !.builds = @ + 1,
                               !.calls = Append(@, [call EXCEPT !.pc = "build"])]
               ELSE [l1 EXCEPT !.builds = @ + 1, !.engine = "pcm",
                               !.calls = Append(@, call)]
    /\ UNCHANGED pipe
    /\ UNCHANGED conv

\* stream(), line 53: the factory returns and the engine is stored.
BuildDone(k) ==
    /\ life.calls[k].pc = "build"
    /\ life' = [life EXCEPT !.engine = "pcm", !.calls[k].pc = "run"]
    /\ UNCHANGED pipe
    /\ UNCHANGED conv

\* A worker that sends the chunk of the engine as it is.
final_chunk_raw(synth_ok, raw_chunk, target, env) ==
    IF ~synth_ok THEN [NoResult EXCEPT !.kind = "raised"]
    ELSE [kind |-> "chunk", chunk |-> raw_chunk, source |-> NoSpec, target |-> NoSpec]

\* _tts_worker, lines 100-105: the final chunk, or the exception raised by
\* engine.synth or by the transcoder.
final_chunk(synth_ok, raw_chunk, target, env) ==
    IF ~synth_ok THEN [NoResult EXCEPT !.kind = "raised"]
    ELSE convert(raw_chunk, target, env)

\* One segment of invocation k: the producer publishes it unless its token
\* is cancelled, the worker and the consumer pass it on unless self._token
\* is cancelled (lines 96, 123 and 65), a failure skips it (lines 107-109)
\* and a result behind a skipped id stays in pending (line 136).  out holds
\* the specs of the chunks yielded.
StreamStep(k) ==
    /\ life.calls[k].pc = "run"
    /\ \E env \in WorkerEnvs, synth_ok \in BOOLEAN :
         LET c  == life.calls[k]
             r  == final_chunk(synth_ok,
                               [id |-> 1, data |-> "raw", spec |-> RawSpec(life.engine)],
                               life.output_spec, env)
             c1 == [c EXCEPT !.next = @ + 1]
         IN  life' = [life EXCEPT !.calls[k] =
                        IF c.next = NSegs THEN [c EXCEPT !.pc = "done"]
                        ELSE IF life.tokens[c.own] \/ life.tokens[life.token]
                        THEN [c EXCEPT !.pc = "done", !.cut = TRUE]
                        ELSE IF r.kind # "chunk" THEN [c1 EXCEPT !.stalled = TRUE]
                        ELSE IF c.stalled THEN c1
                        ELSE [c1 EXCEPT !.out = Append(@, r.chunk.spec)]]
    /\ UNCHANGED pipe
    /\ UNCHANGED conv

LifeNext ==
    \/ NanoTTS_init
    \/ NanoTTS_cancel
    \/ NanoTTS_stream
    \/ \E k \in 1..Len(life.calls) : BuildDone(k)
    \/ \E k \in 1..Len(life.calls) : StreamStep(k)

SpecLife == LifeInit /\ [][LifeNext]_vars

(***************************************************************************)
(* AudioTranscoder.convert alone, for every chunk spec, target and         *)
(* environment.                                                            *)
(***************************************************************************)

ConvInit ==
    /\ PipelineIdle
    /\ life = NoLife
    /\ \E c \in AudioSpecs, t \in AudioSpecs, e \in Envs :
         conv = [chunk |-> [id |-> 1, data |-> "raw", spec |-> c], target |-> t,
                 env |-> e, result |-> NoResult]

\* await AudioTranscoder.convert(chunk, target)
ConvertCall ==
    /\ conv.chunk # NoChunk
    /\ conv.result = NoResult
    /\ conv' = [conv EXCEPT !.result = convert(conv.chunk, conv.target, conv.env)]
    /\ UNCHANGED pipe
    /\ UNCHANGED life

ConvNext == ConvertCall

SpecConvert == ConvInit /\ [][ConvNext]_vars

(***************************************************************************)
(* Properties of the published segments                                    *)
(***************************************************************************)

\* The texts of the segments of q, in order.
Texts(q) == [i \in 1..Len(q) |-> q[i].text]

\* The text t ends with the text suf.
EndsWith(t, suf) ==
    Len(t) >= Len(suf) /\ SubSeq(t, Len(t) - Len(suf) + 1, Len(t)) = suf

\* The text t ends with Ph., Dr., U.S., Mr., Mrs., a digit and a dot, or
\* a dollar amount and a dot.
EndsInAbbreviation(t) ==
    \/ EndsWith(t, <<"P", "h", ".">>)
    \/ EndsWith(t, <<"D", "r", ".">>)
    \/ EndsWith(t, <<"U", ".", "S", ".">>)
    \/ EndsWith(t, <<"M", "r", ".">>)
    \/ EndsWith(t, <<"M", "r", "s", ".">>)
    \/ Len(t) >= 2 /\ t[Len(t)] = "." /\ IsDigit(t[Len(t) - 1])

\* The characters of the markdown markers.
IsMarkup(c) == c \in {"*", "#", "TICK", "[", "]", ">", "-", "+"}

\* A text without markdown markup, without repeated spaces and without
\* the runs of newlines that normalize_text shortens.
PlainText(t) ==
    /\ \A i \in 1..Len(t) : ~IsMarkup(t[i]) /\ ~IsDigit(t[i])
    /\ normalize_text(t) = t

\* The text t without its whitespace.
Squeeze(t) == SelectSeq(t, LAMBDA c : ~IsSpace(c))

\* No idle timeout has fired in the feed.
NoTimeout == lost = <<>> /\ \A k \in DOMAIN idle : idle[k] = 0

\* The feed is over, without a cancel.
FeedDone == sg.pc = "done" /\ ~token

\* C12: every published segment has a text that is non-empty after
\* trimming whitespace.
C12_NonBlankSegments ==
    \A i \in 1..Len(published) : ~Blank(published[i].text)

\* C13: no published segment ends in the middle of an abbreviation or of a
\* numeric literal.
C13_NoAbbreviationCut ==
    \A i \in 1..Len(published) : ~EndsInAbbreviation(published[i].text)

\* C14: the string of three sentences ended by CJK terminators with no
\* whitespace between them, with min_tokens = 1 and max_tokens = 15, is cut
\* after every terminator.
C14_CjkSentences ==
    (run.kind = "str" /\ run.frags = <<TxtCjk>> /\ run.min_tokens = 1
        /\ run.max_tokens = 15 /\ FeedDone)
        => Texts(published) = << <<"A", "U3002">>, <<"B", "UFF01">>, <<"C", "UFF1F">> >>

\* C15: every published segment but the last of the run has at most
\* max_tokens tokens.
C15_MaxTokens ==
    \A i \in 1..Len(published) - 1 : TokenCount(published[i].text) <= run.max_tokens

\* C16: for a plain text fed without cancel, the published texts
\* concatenated in id order are the input text.
C16_Concatenation ==
    (FeedDone /\ lost = <<>> /\ PlainText(Concat(run.frags)))
        => Concat(Texts(published)) = Concat(run.frags)

\* C17: a text fed as one string and fed as one-character fragments, no
\* timeout firing, gives the same set of segment texts up to whitespace.
C17_SameSegments ==
    (earlier # <<>> /\ FeedDone /\ NoTimeout)
        => {Squeeze(published[i].text) : i \in 1..Len(published)}
             = {Squeeze(earlier[i].text) : i \in 1..Len(earlier)}

\* C18: a forced break of a plain buffer falls at the end of a separator
\* when a searched prefix holds one, else after whitespace when a searched
\* prefix ends with whitespace, and never between two letters.
C18_ForcedBreak ==
    (sg.pc = "send" /\ sg.kont = "force" /\ PlainText(sg.cur \o sg.rest))
        => LET B     == sg.cur \o sg.rest
               cut   == Len(sg.cur)
               ends  == Encode(B)
               range == (run.min_tokens + 1)..Min(Len(ends), run.max_tokens)
           IN  /\ (\E i \in range : HasSeparator(PrefixAt(B, ends, i)))
                     => cut \in Tier1Ends(B) \cup Tier2Ends(B)
               /\ (/\ \A i \in range : ~HasSeparator(PrefixAt(B, ends, i))
                   /\ \E i \in range : i < Len(ends) /\ EndsWithSpace(PrefixAt(B, ends, i)))
                     => EndsWithSpace(sg.cur)
               /\ ~(cut < Len(B) /\ IsLetter(B[cut]) /\ IsLetter(B[cut + 1]))

\* The text t holds two adjacent stars or a backtick, or starts with a
\* header prefix.
HasMarkdown(t) ==
    \/ \E i \in 1..Len(t) - 1 : t[i] = "*" /\ t[i + 1] = "*"
    \/ \E i \in 1..Len(t) : t[i] = "TICK"
    \/ t # <<>> /\ t[1] = "#"

\* C19: no published segment contains two adjacent stars, a backtick or a
\* leading header prefix.
C19_NoMarkdown ==
    \A i \in 1..Len(published) : ~HasMarkdown(published[i].text)

\* The input is empty or holds only whitespace.
BlankInput == Blank(Concat(run.frags))

\* C20: for an empty or whitespace-only input no segment is published, no
\* pair is yielded and stream() terminates.
C20_BlankInput ==
    /\ [](BlankInput => published = <<>> /\ out = <<>>)
    /\ BlankInput => <>(spc = "done")

\* stream() has returned for an input of whitespace.
C20_Witness ==
    /\ BlankInput
    /\ Concat(run.frags) # <<>>
    /\ spc = "done"
    /\ ~token

\* C28: the pre_hook is never awaited with an empty text.
C28_HookNeverOnEmpty ==
    ~(sg.pc = "hook" /\ sg.cur = <<>>)

(***************************************************************************)
(* Properties of the reorder consumer                                      *)
(***************************************************************************)

\* The ids that have arrived at the consumer.
ArrivedIds == {arrived[i] : i \in 1..Len(arrived)}

\* The consumer is suspended in its receive, between two arrivals.
BetweenArrivals == cpc = "recv" /\ ~token

\* C29: fed the results 0..n-1 in any order, the consumer yields all of them
\* in the order 0,1,...,n-1, has yielded between two arrivals every arrived
\* id whose smaller ids have all arrived, and ends with pending empty.
C29_ReorderComplete ==
    /\ \A i \in 1..Len(out) : out[i].id = i - 1
    /\ BetweenArrivals =>
          \A i \in ArrivedIds : (\A j \in 0..(i - 1) : j \in ArrivedIds) => i \in Ids(out)
    /\ (cpc = "done" /\ ~token /\ failed = {}) =>
          /\ Len(out) = Len(published)
          /\ DOMAIN pending = {}

\* All of 0..MaxSegs-1 were yielded although the first id arrived last.
C29_Witness ==
    /\ cpc = "done"
    /\ ~token
    /\ failed = {}
    /\ Len(out) = MaxSegs
    /\ arrived[MaxSegs] = 0

\* C30: between two arrivals every key of pending is greater than
\* expected_id.
C30_PendingAhead ==
    cpc = "recv" => \A k \in DOMAIN pending : k > expected_id

\* Two results are buffered while the consumer waits for an earlier id.
C30_Witness ==
    /\ cpc = "recv"
    /\ DOMAIN pending = {1, 2}
    /\ expected_id = 0

(***************************************************************************)
(* Properties of the NanoTTS object and of the transcoder                  *)
(***************************************************************************)

\* C21: the registry factory is called at most once for one NanoTTS, also
\* when stream() invocations overlap, and never when an engine was passed.
C21_EngineBuiltOnce ==
    /\ life.builds <= 1
    /\ life.args.engine # "None" => life.builds = 0

\* C22: the flag of a StreamToken that is set stays set, and a cancel() on
\* a cancelled token changes neither the tokens nor self._token.
C22_TokenMonotonic ==
    /\ [][\A i \in 1..Len(life.tokens) :
             life.tokens[i] => (i <= Len(life'.tokens) /\ life'.tokens[i])]_vars
    /\ [][(NanoTTS_cancel /\ life.token # 0 /\ life.tokens[life.token])
             => (life'.tokens = life.tokens /\ life'.token = life.token)]_vars

\* cancel() was called on a token that was cancelled already.
C22_Witness ==
    /\ life.again
    /\ life.token # 0
    /\ life.tokens[life.token]

\* C23: the token of a running invocation is uncancelled until a cancel()
\* is issued during that invocation, only such a cancel() ends it early,
\* and without one and without a failure it yields every segment.
C23_FreshToken ==
    \A k \in 1..Len(life.calls) :
        /\ (life.calls[k].pc \in {"build", "run"} /\ ~life.calls[k].hit)
              => ~life.tokens[life.calls[k].own]
        /\ life.calls[k].cut => life.calls[k].hit
        /\ (life.calls[k].pc = "done" /\ ~life.calls[k].hit /\ ~life.calls[k].stalled)
              => Len(life.calls[k].out) = NSegs

\* The first token was cancelled and the second invocation yielded all.
C23_Witness ==
    /\ Len(life.calls) >= 2
    /\ life.tokens[1]
    /\ life.calls[2].pc = "done"
    /\ ~life.calls[2].hit
    /\ Len(life.calls[2].out) = NSegs

\* C24: the constructor raises exactly when an engine and a model name are
\* both given, and then there is no object to call.
C24_BothIsError ==
    life.state \in {"ok", "ValueError"} =>
        /\ (life.state = "ValueError")
              <=> (life.args.engine # "None" /\ life.args.model # "None")
        /\ life.state = "ValueError" =>
              (life.calls = <<>> /\ life.tokens = <<>> /\ life.engine = "None"
                 /\ life.model = "None")

\* The constructor has raised.
C24_Witness ==
    /\ life.state = "ValueError"
    /\ life.args.engine # "None"
    /\ life.args.model # "None"

\* C25: with a model name that is not registered every stream() invocation
\* raises before its tasks start: no factory is called, nothing is yielded.
C25_UnknownModel ==
    (life.args.engine = "None" /\ life.args.model \notin Registered \cup {"None"}) =>
        /\ life.builds = 0
        /\ life.engine = "None"
        /\ \A k \in 1..Len(life.calls) :
              life.calls[k].pc = "raised" /\ life.calls[k].out = <<>>

\* The first stream() of an object with an unknown model has raised.
C25_Witness ==
    /\ life.args.engine = "None"
    /\ life.args.model = "nope"
    /\ Len(life.calls) >= 1
    /\ life.calls[1].pc = "raised"

\* C26: every chunk yielded by stream() is in the output_spec of the object.
C26_OutputSpec ==
    \A k \in 1..Len(life.calls) : \A i \in 1..Len(life.calls[k].out) :
        life.calls[k].out[i] = life.output_spec

\* A chunk was yielded although the engine returns another spec.
C26_Witness ==
    \E k \in 1..Len(life.calls) :
        /\ life.calls[k].out # <<>>
        /\ RawSpec(life.engine) # life.output_spec

\* C27: convert returns the chunk itself when its spec is the target, and
\* otherwise a chunk in the target spec or UnsupportedFormat with the
\* source and the target spec.
C27_ConvertContract ==
    conv.result # NoResult =>
        IF conv.chunk.spec = conv.target
        THEN conv.result.kind = "chunk" /\ conv.result.chunk = conv.chunk
        ELSE \/ conv.result.kind = "chunk" /\ conv.result.chunk.spec = conv.target
             \/ /\ conv.result.kind = "UnsupportedFormat"
                /\ conv.result.source = conv.chunk.spec
                /\ conv.result.target = conv.target

\* The chunk came back unchanged where no ffmpeg exists.
C27_Witness ==
    /\ conv.result.kind = "chunk"
    /\ conv.result.chunk = conv.chunk
    /\ conv.chunk # NoChunk
    /\ conv.env.ffmpeg_python = "ImportError"
    /\ ~conv.env.binary

(***************************************************************************)
(* Properties of the worker, of the consumer and of the cuts               *)
(***************************************************************************)

\* The ids whose result has reached the result channel.
Reached == Ids(published) \ failed

\* The smallest id without a result, among the ids the Segmenter has given.
FirstGap == Least({i \in 0..sg.id : i \notin Reached})

\* C31: when an uncancelled run has ended, the ids yielded are exactly the
\* ids below the smallest id k whose result never reached the result
\* channel, and the results above k are still buffered, not yielded.
C31_YieldedPrefix ==
    (cpc = "done" /\ ~token) =>
        /\ Ids(out) = {i \in 0..sg.id : i < FirstGap}
        /\ DOMAIN pending = {i \in Reached : i > FirstGap}

\* A run has ended with a failed segment between a yielded and a buffered one.
C31_Witness ==
    /\ cpc = "done"
    /\ ~token
    /\ failed # {}
    /\ out # <<>>
    /\ DOMAIN pending # {}

\* The records of a sequence.
Range(q) == {q[i] : i \in 1..Len(q)}

\* The segment in the worker's hands has had no engine.synth call yet.
FirstAttempt ==
    wpc \in {"synth", "send"} =>
        /\ wseg \in Range(published)
        /\ wseg.id \notin failed \cup Ids(audQ) \cup ArrivedIds

\* No two results have the same id.
OneResultPerSegment ==
    /\ Cardinality(Ids(audQ)) = Len(audQ)
    /\ Cardinality(ArrivedIds) = Len(arrived)
    /\ Ids(audQ) \cap ArrivedIds = {}

\* Every result has the id and the text of a published segment.
ResultsOfSegments ==
    /\ Range(audQ) \cup Range(out) \subseteq Range(published)
    /\ \A i \in DOMAIN pending : [id |-> i, text |-> pending[i]] \in Range(published)

\* C32: the worker calls engine.synth once for every segment it receives
\* before the cancellation, never again after a failure, and sends at most
\* one result per segment, with the id and the text of that segment.
C32_OneSynthPerSegment ==
    /\ [](FirstAttempt /\ OneResultPerSegment /\ ResultsOfSegments)
    /\ [][(wpc = "recv" /\ segQ # <<>> /\ segQ' = Tail(segQ) /\ ~token) =>
             (wpc' = "synth" /\ wseg' = Head(segQ))]_vars
    /\ [][(wpc = "synth" /\ wpc' # "synth") =>
             \/ wpc' = "send" /\ wseg' = wseg /\ failed' = failed
             \/ wpc' = "recv" /\ failed' = failed \cup {wseg.id}]_vars

\* The worker is in the call for a segment after the call for an earlier
\* segment has raised and another has given a result.
C32_Witness ==
    /\ wpc = "synth"
    /\ failed # {}
    /\ arrived # <<>>

\* C33: once the token is cancelled the worker starts no engine.synth call;
\* the call in flight may return and its result may be queued, but no
\* result is yielded any more.
C33_NoSynthAfterCancel ==
    /\ [][token => (wpc' = "synth" => wpc = "synth")]_vars
    /\ [][token => (wpc = "synth" => wpc' \in {"synth", "send", "recv"})]_vars
    /\ [][token => out' = out]_vars

\* The stream has ended after a cancel with a result that was not yielded.
C33_Witness ==
    /\ token
    /\ spc = "done"
    /\ Len(audQ) + Len(arrived) > Len(out)

\* C34: once the token is cancelled the Segmenter publishes no further
\* segment, whatever the shape of the input and also when the cancel comes
\* while a cut is in progress.
C34_NoSegmentAfterCancel == [][token => published' = published]_vars

\* _process_string returns at once for the fragment that a cancelled
\* Segmenter is waiting for: the buffer and the next id are as before.
IgnoresNextFragment ==
    (token /\ sg.pc = "wait" /\ sg.pos < Len(run.frags)) =>
        \A m \in {SegProcess([sg EXCEPT !.pos = sg.pos + 1,
                                        !.cur = run.frags[sg.pos + 1]])} :
            m.pc = "chunkdone" /\ m.buf = sg.buf /\ m.id = sg.id

\* C35: a fragment fed after the cancellation is ignored: the step that
\* takes it leaves the buffer and the next id to the flush of feed, which
\* sends at most the text buffered before, and publishes nothing itself.
C35_LateTextIgnored ==
    /\ []IgnoresNextFragment
    /\ [][(token /\ sg.pc = "wait" /\ sg'.pos = sg.pos + 1) =>
             /\ published' = published
             /\ segQ' = segQ
             /\ sg'.buf = <<>>
             /\ sg'.cur \in {<<>>, clean_markdown(sg.buf)}
             /\ sg'.id \in {sg.id, sg.id + 1}]_vars

\* The second fragment came after the cancel: only the first was published.
C35_Witness ==
    /\ token
    /\ run.kind = "async"
    /\ run.min_tokens = 10
    /\ sg.pc = "done"
    /\ sg.pos = 2
    /\ lost = <<>>
    /\ \A k \in DOMAIN idle : idle[k] = 0
    /\ Texts(published) = << <<"A", "b">> >>

\* The whole buffer b is handed to _emit by the caller k: the buffer is
\* empty, and the cleaned text of b, when there is any, is one segment on
\* its way to the pre_hook or to the channel.
EmitsWhole(b, k) ==
    /\ sg'.buf = <<>>
    /\ sg'.rest = <<>>
    /\ IF Blank(b) \/ clean_markdown(b) = <<>>
       THEN sg'.id = sg.id /\ sg'.pc \notin {"hook", "send"}
       ELSE /\ sg'.kont = k
            /\ sg'.cur = clean_markdown(b)
            /\ \/ sg'.pc = "send" /\ sg'.id = sg.id + 1
               \/ sg'.pc = "hook" /\ sg'.id = sg.id

C37_BufferBelowMax ==
    sg.pc \in {"wait", "done"} => TokenCount(sg.buf) < run.max_tokens

\* The Segmenter awaits the pre_hook or the send for a cut made by
\* _try_segment_at_tier, in a run whose text no cleaning changes: the cut
\* piece is sg.cur and the buffer that was cut is sg.cur \o sg.rest.
TierCut ==
    /\ sg.pc \in {"hook", "send"}
    /\ sg.kont = "tier"
    /\ PlainText(Concat(run.frags))

\* The ends of the matches of a tier in b whose prefix has min_tokens tokens.
Qualifying(b, tier) ==
    {e \in SeparatorEnds(b, tier) : TokenCount(Take(b, e)) >= run.min_tokens}

IsPrefix(a, b) == Len(a) <= Len(b) /\ Take(b, Len(a)) = a

\* The cut piece has min_tokens tokens and ends at a separator; where a
\* tier-1 cut is possible it ends at the leftmost tier-1 match with
\* enough tokens.
LeftmostCut ==
    TierCut =>
        \A b \in {sg.cur \o sg.rest} :
            /\ TokenCount(sg.cur) >= run.min_tokens
            /\ Len(sg.cur) \in Qualifying(b, 1) \cup Qualifying(b, 2)
            /\ (TokenCount(b) >= run.min_tokens /\ Qualifying(b, 1) # {}) =>
                  /\ Len(sg.cur) \in Qualifying(b, 1)
                  /\ \A e \in Qualifying(b, 1) : Len(sg.cur) <= e

\* C38: a tier-1 cut ends at the leftmost tier-1 match whose prefix has at
\* least min_tokens tokens; every piece cut at a tier has at least
\* min_tokens tokens, and the Segmenter keeps the remainder.
C38_LeftmostTier1 ==
    /\ []LeftmostCut
    /\ [][(TierCut /\ published' # published) =>
             \/ Blank(sg.rest)
             \/ IsPrefix(sg.rest, sg'.buf \o sg'.cur \o sg'.rest)]_vars

\* A tier-1 cut after a match whose prefix had too few tokens, with a
\* remainder.
C38_Witness ==
    /\ TierCut
    /\ sg.rest # <<>>
    /\ Len(sg.cur) \in Qualifying(sg.cur \o sg.rest, 1)
    /\ \E e \in Tier1Ends(sg.cur \o sg.rest) : e < Len(sg.cur)

\* C39: a piece is cut at a comma only when the buffer has at least 0.8
\* times max_tokens tokens, fewer than max_tokens, and no tier-1 cut was
\* possible; below 0.8 times max_tokens every tier cut is a tier-1 cut.
C39_Tier2Threshold ==
    TierCut =>
        \A b \in {sg.cur \o sg.rest} :
            /\ TokenCount(b) < run.max_tokens
            /\ (TokenCount(b) < run.min_tokens \/ Qualifying(b, 1) = {}) =>
                  /\ 10 * TokenCount(b) >= 8 * run.max_tokens
                  /\ Len(sg.cur) \in Qualifying(b, 2)
                  /\ \A e \in Qualifying(b, 2) : Len(sg.cur) <= e
            /\ 10 * TokenCount(b) < 8 * run.max_tokens =>
                  /\ TokenCount(b) >= run.min_tokens
                  /\ Len(sg.cur) \in Qualifying(b, 1)

\* A cut at a comma in a buffer without any tier-1 separator.
C39_Witness ==
    /\ TierCut
    /\ Tier1Ends(sg.cur \o sg.rest) = {}
    /\ Len(sg.cur) \in Tier2Ends(sg.cur \o sg.rest)

\* C40: when the receiving end of the segment channel is closed the
\* Segmenter stops without an error: feed() never ends by an exception.
C40_ClosedReceiverNoError == ~recvOpen => sg.pc # "raised"


=============================================================================
